---- MODULE Spec2Model ----
(***************************************************************************)
(* PiCAN pump-station controller: the control loop (CanProcess.run), the   *)
(* fleet manager (CanNetwork) and the settings store they share with the   *)
(* socket process and the service-hour ticker.                             *)
(*                                                                         *)
(* Representation notes.                                                   *)
(*  - Pressures read from the bus are kept as the raw integer the drive    *)
(*    returns (tenths of a bar); the loop's outlet_pressure = raw/10 is    *)
(*    compared and multiplied in tenths so that no fraction is lost.       *)
(*  - datetime values are kept as the number of whole seconds elapsed      *)
(*    since they were taken, saturated just above the threshold they are   *)
(*    compared with.                                                       *)
(*  - Of the two readings the periodic phase persists (lines 173-174) the  *)
(*    store keeps Pressione_Ingresso; Pressione_Uscita, which no process   *)
(*    reads back, is left out.                                             *)
(*  - Of a drive's Statusword the model keeps bit 3 (fault) and bits 1 and  *)
(*    2 (sw_bits), the three bits the fleet manager reads.                 *)
(*  - lastOp, tickIn and trace are history variables: the step taken last  *)
(*    ("env" for a command put or a response taken by the socket process   *)
(*    and for a step of a drive; "ticker", "reset", "info_reply", "sim"    *)
(*    and "time_increase" for the steps of the ticker, of the socket       *)
(*    process and of the modem thread that are modelled in full), the      *)
(*    inputs of the periodic phase, and the fleet calls and bus writes of  *)
(*    the handler that has just run, in program order.  lastCmd is the     *)
(*    last of RUN and STOP that was serviced.  tickIn.prevTick is the      *)
(*    Pressione_Ingresso_OK the tick just before stored, "none" if the     *)
(*    step before was no tick.                                             *)
(***************************************************************************)
EXTENDS Integers, Sequences, FiniteSets, TLC

\* ---------------------------------------------------------------- bounds
MaxNodes == 2          \* drives answering the bus scan: 0..MaxNodes
MaxHours == 24         \* time_increase is applied up to this many hours

\* ------------------------------------------------------ program constants
FAULT == 0
SWITCH_ON_DISABLED == 128
SWITCHED_ON == 7
OPERATION_ENABLED == 15
FaultResetBit == 128   \* bit 7 of the control word
MaxRetries == 5        \* Sim(max_retries=5)
SpeedGain == 30
SpeedCap == 3000
DefaultTarget == 12

\* Python's None, for a state or a datetime not set yet
None == 0 - 1

\* Sample readings of the outlet sensor (raw, tenths of a bar), targets the
\* server sets, anti-drip settings and seconds between two polls that time out.
OutletReadings == {70, 120}
\* Arguments of SET_PRESSURE_TARGET as the server writes them.
TargetArgs == {"12", "112", "012", "x"}
StartLimits == {1}
MinPeriods == {1}
TimeLimits == {2}
Dts == {1}
\* Readings of inlet pressure, inlet temperature and outlet pressure that
\* GET_INFO may see.
InfoReadings == {<<1, 0, 70>>, <<0, 1, 120>>}
Commands == {"RUN", "STOP", "GET_INFO", "RESET_PRESSURE_TARGET", "BOGUS"}
Services == {"impianto_TL_SERVICE", "impianto_BK_SERVICE", "impianto_RB_SERVICE"}

VARIABLES
    \* CanNetwork
    nodes_list,        \* ids of the discovered drives, in scan order
    state,             \* CanNetwork.state: the last commanded network state
    speed,             \* CanNetwork.speed
    cw,                \* per drive: rpdo[1]['CiA: Controlword'].raw
    velocity,          \* per drive: sdo[0x6042] (target velocity)
    fault,             \* per drive: bit 3 of tpdo[1]['CiA: Statusword']
    sw_bits,           \* per drive: which of bits 1 and 2 of the Statusword are set
    \* CanProcess
    anti_drip, operator_pump_start, running, target_pressure,
    anti_drip_start_count_limit, anti_drip_min_period, anti_drip_time_limit,
    last_started, anti_drip_start_count, anti_drip_current_time_frame,
    alive,             \* FALSE once an exception has ended run()
    \* shared
    settings,          \* the settings table of piCANclient.db
    read_queue,        \* commands for the control loop
    write_queue,       \* responses of the control loop
    pending,           \* SocketProcess.run: the command it has put and whose
                       \* response it is blocked on in read_queue.get(); "none" at line 285
    \* the other processes and threads
    ticker,            \* time_updater: its locals, and whether it still runs
    sock,              \* SocketProcess: last_row, the last answer sent, the rows inserted
    sim,               \* Sim: the two events and the position of connection_thread
    hms,               \* a seconds, minutes, hours triple passed through time_increase
    \* history
    lastOp, lastCmd, tickIn, trace

netVars == <<nodes_list, state, speed, cw, velocity, fault, sw_bits>>
procVars == <<anti_drip, operator_pump_start, running, target_pressure,
              anti_drip_start_count_limit, anti_drip_min_period, anti_drip_time_limit,
              last_started, anti_drip_start_count, anti_drip_current_time_frame, alive>>
histVars == <<lastOp, lastCmd, tickIn, trace>>
sideVars == <<ticker, sock, sim, hms>>
vars == <<netVars, procVars, settings, read_queue, write_queue, pending, sideVars, histVars>>

\* ------------------------------------------------------------- helpers
Min(a, b) == IF a < b THEN a ELSE b

Bit7(w) == (w \div FaultResetBit) % 2

SetBit7(w) == IF Bit7(w) = 1 THEN w ELSE w + FaultResetBit

ClearBit7(w) == IF Bit7(w) = 1 THEN w - FaultResetBit ELSE w

\* "{}".format(value) of update_setting, for the 0/1 values the loop stores
Format(v) == IF v = 1 THEN "1" ELSE "0"

\* int(get_setting(key)) for a flag stored as "0" or "1"
ToInt(s) == IF s = "1" THEN 1 ELSE 0

Digit == <<"0", "1", "2", "3", "4", "5", "6", "7", "8", "9">>

\* str(n) for a natural number, as time_updater stores the counters
RECURSIVE Str(_)
Str(n) == IF n < 10 THEN Digit[n + 1] ELSE Str(n \div 10) \o Digit[(n % 10) + 1]

\* int(s) for the decimal strings the counter keys hold
Num(s) == CHOOSE n \in 0..99 : Str(n) = s

\* int(s) for the strings the target setting takes; IsInt(s) is FALSE where
\* int(s) raises ValueError.
IsInt(s) == s \in {"12", "112", "012"}

IntOf(s) ==
    CASE s = "12" -> DefaultTarget
      [] s = "012" -> DefaultTarget
      [] s = "112" -> 112
      [] OTHER -> None

Ev(e, n, v) == [ev |-> e, node |-> n, val |-> v]

Nodes == {nodes_list[i] : i \in 1..Len(nodes_list)}

NoTickIn == [inlet |-> 0, raw |-> 0, anti_drip |-> FALSE,
             run |-> FALSE, wasRunning |-> FALSE, target |-> 0, prevTick |-> "none"]

\* ------------------------------------------------------------ CanNetwork
is_faulty(n) == fault[n]

\* (variant: the test is inverted)
get_healthy_nodes == SelectSeq(nodes_list, LAMBDA n : ~is_faulty(n))

get_faulty_nodes == SelectSeq(nodes_list, LAMBDA n : is_faulty(n))

\* The fleet as one value: [state, speed, cw, velocity, tr]; tr collects the
\* calls and bus writes in program order.
Net == [state |-> state, speed |-> speed, cw |-> cw, velocity |-> velocity, tr |-> <<>>]

Log(net, e) == [net EXCEPT !.tr = Append(@, e)]

\* (variant: the broadcast is sent whatever the current state is)
set_network_state_always(net, st) ==
    LET ok == SelectSeq(nodes_list, LAMBDA n : ~is_faulty(n))
    IN  [net EXCEPT !.state = st,
                    !.cw = [n \in DOMAIN net.cw |-> IF is_faulty(n) THEN net.cw[n] ELSE st],
                    !.tr = @ \o [i \in 1..Len(ok) |-> Ev("cw", ok[i], st)]]

\* (variant: the broadcast does not skip faulty drives)
set_network_state_all(net, st) ==
    IF net.state # st
    THEN [net EXCEPT !.state = st,
                     !.cw = [n \in DOMAIN net.cw |-> st],
                     !.tr = @ \o [i \in 1..Len(nodes_list) |-> Ev("cw", nodes_list[i], st)]]
    ELSE net

set_network_state(net, st) ==
    IF net.state # st
    THEN LET ok == SelectSeq(nodes_list, LAMBDA n : ~is_faulty(n))
         IN  [net EXCEPT !.state = st,
                         !.cw = [n \in DOMAIN net.cw |-> IF is_faulty(n) THEN net.cw[n] ELSE st],
                         !.tr = @ \o [i \in 1..Len(ok) |-> Ev("cw", ok[i], st)]]
    ELSE net

\* (variant: the fleet is left at SWITCHED_ON)
run_all_nodes_one_phase(net) ==
    set_network_state(Log(net, Ev("run_all", 0, 0)), SWITCHED_ON)

run_all_nodes(net) ==
    set_network_state(set_network_state(Log(net, Ev("run_all", 0, 0)), SWITCHED_ON),
                      OPERATION_ENABLED)

\* (variant: the stop disables the drives)
stop_all_nodes_disable(net) ==
    set_network_state(Log(net, Ev("stop_all", 0, 0)), SWITCH_ON_DISABLED)

stop_all_nodes(net) ==
    set_network_state(Log(net, Ev("stop_all", 0, 0)), SWITCHED_ON)

set_speed_all_nodes(net, rpm) ==
    [net EXCEPT !.speed = rpm,
                !.velocity = [n \in DOMAIN net.velocity |-> rpm],
                !.tr = (@ \o <<Ev("set_speed", 0, rpm)>>)
                       \o [i \in 1..Len(nodes_list) |-> Ev("velocity", nodes_list[i], rpm)]]

\* (variant: the reset does not look at the fault bit)
reset_all_nodes(net) ==
    [net EXCEPT !.cw = [n \in DOMAIN net.cw |-> ClearBit7(SetBit7(net.cw[n]))],
                !.tr = (@ \o <<Ev("reset_faulty_nodes", 0, 0)>>)
                       \o [i \in 1..(2 * Len(nodes_list)) |->
                             IF i % 2 = 1
                             THEN Ev("bit7", nodes_list[(i + 1) \div 2],
                                     SetBit7(net.cw[nodes_list[(i + 1) \div 2]]))
                             ELSE Ev("bit7", nodes_list[i \div 2],
                                     ClearBit7(SetBit7(net.cw[nodes_list[i \div 2]])))]]

\* reset_faulty_node for every drive: bit 7 is written 1, then 0
reset_faulty_nodes(net) ==
    LET bad == get_faulty_nodes
    IN  [net EXCEPT !.cw = [n \in DOMAIN net.cw |->
                               IF is_faulty(n) THEN ClearBit7(SetBit7(net.cw[n])) ELSE net.cw[n]],
                    !.tr = (@ \o <<Ev("reset_faulty_nodes", 0, 0)>>)
                           \o [i \in 1..(2 * Len(bad)) |->
                                 IF i % 2 = 1
                                 THEN Ev("bit7", bad[(i + 1) \div 2], SetBit7(net.cw[bad[(i + 1) \div 2]]))
                                 ELSE Ev("bit7", bad[i \div 2], ClearBit7(SetBit7(net.cw[bad[i \div 2]])))]]

\* (variant: bit 1 is looked at before bit 2)
get_state_bit1_first(n) ==
    IF is_faulty(n) THEN FAULT
    ELSE IF 1 \in sw_bits[n] THEN SWITCHED_ON
    ELSE IF 2 \in sw_bits[n] THEN OPERATION_ENABLED
    ELSE SWITCH_ON_DISABLED

get_state(n) ==
    IF is_faulty(n) THEN FAULT
    ELSE IF 2 \in sw_bits[n] THEN OPERATION_ENABLED
    ELSE IF 1 \in sw_bits[n] THEN SWITCHED_ON
    ELSE SWITCH_ON_DISABLED

\* A drive clears its latched fault only on a rising edge of bit 7.
Resettable == {n \in Nodes : fault[n] /\ Bit7(cw[n]) = 0}

\* ------------------------------------------------------------ CanProcess
load_boolean(store, field_name, invert) ==
    LET setting_string == store["Antisgocc_OK"]
    IN  (setting_string = "1" /\ ~invert) \/ (setting_string = "0" /\ invert)

\* initialize_settings; every setting is read from the store
initialize_settings(store) ==
    [anti_drip_min_period |-> store["AntisgoccDurataPartenze"],
     target_pressure |-> IntOf(store["Pressione_Uscita_Target"]),
     anti_drip_start_count_limit |-> store["AntisgoccNpartenze"],
     anti_drip_time_limit |-> store["AntisgoccPeriodoControllo"],
     anti_drip |-> load_boolean(store, "Antisgocc_OK", FALSE),
     operator_pump_start |-> load_boolean(store, "Operator_Pump_start", FALSE)]

\* The service counters, their limits (SetCounter) and what a fresh database
\* holds for them.
CounterKeys ==
    {"impianto_TL_Counter_hour", "impianto_TL_Counter_min", "impianto_TL_Counter_sec",
     "impianto_TL_Counter_SetCounter",
     "impianto_BK_Counter_hour", "impianto_BK_Counter_min", "impianto_BK_Counter_sec",
     "impianto_BK_Counter_SetCounter",
     "impianto_RB_Counter_hour", "impianto_RB_Counter_min", "impianto_RB_Counter_sec",
     "impianto_RB_Counter_SetCounter"}

ServiceCounters == [k \in CounterKeys |-> "0"]

\* The settings table when the control process starts: the flags hold what an
\* earlier run or the operator left there, the anti-drip parameters what the
\* installer configured.
InitialStores ==
  {s @@ ServiceCounters : s \in
    [Operator_Pump_start : {"0", "1"},
     Antisgocc_OK : {"0", "1"},
     Pressione_Ingresso_OK : {"0"},
     impianto_TL_SERVICE : {"0"},
     impianto_BK_SERVICE : {"0"},
     impianto_RB_SERVICE : {"0"},
     Pressione_Uscita_Target : {"12"},
     Pressione_Ingresso : {"0"},
     AntisgoccNpartenze : StartLimits,
     AntisgoccDurataPartenze : MinPeriods,
     AntisgoccPeriodoControllo : TimeLimits]}

\* The anti-drip parameters a fresh database holds (SettingsManager.initialize).
FreshStores ==
    {s @@ ServiceCounters : s \in
           [Operator_Pump_start : {"0", "1"},
            Antisgocc_OK : {"0", "1"},
            Pressione_Ingresso_OK : {"0"},
            impianto_TL_SERVICE : {"0"},
            impianto_BK_SERVICE : {"0"},
            impianto_RB_SERVICE : {"0"},
            Pressione_Uscita_Target : {"12"},
            Pressione_Ingresso : {"0"},
            AntisgoccNpartenze : {10},
            AntisgoccDurataPartenze : {0},
            AntisgoccPeriodoControllo : {0}]}

\* Anti-drip settings with room for three counted starts in one window.
DripStores ==
  {s @@ ServiceCounters : s \in
    [Operator_Pump_start : {"0", "1"},
     Antisgocc_OK : {"0", "1"},
     Pressione_Ingresso_OK : {"0"},
     impianto_TL_SERVICE : {"0"},
     impianto_BK_SERVICE : {"0"},
     impianto_RB_SERVICE : {"0"},
     Pressione_Uscita_Target : {"12"},
     Pressione_Ingresso : {"0"},
     AntisgoccNpartenze : {1, 2, 3},
     AntisgoccDurataPartenze : {1, 2, 3},
     AntisgoccPeriodoControllo : {2, 9}]}

\* ---- the other processes, before they are started
Counters == {"TL", "BK", "RB"}

\* A local variable of time_updater that has not been assigned yet.
Unbound == 0 - 2

CounterKey(c, f) == "impianto_" \o c \o "_Counter_" \o f

FlagKey(c) == "impianto_" \o c \o "_SERVICE"

TickerIdle ==
    [alive |-> FALSE, run |-> 0, reset |-> 0,
     limit |-> [c \in Counters |-> 0],
     hour |-> [c \in Counters |-> Unbound],
     min |-> [c \in Counters |-> Unbound],
     sec |-> [c \in Counters |-> Unbound]]

\* SocketProcess.run, line 276: last_row = {}. A row is a function from field
\* names to values; answer is what was last sent to the server, rows the number
\* of rows inserted in the data table.  resets is history: the counters whose
\* reset_time_limit has returned.
SockIdle == [alive |-> TRUE, last_row |-> <<>>,
             answer |-> [kind |-> "none", body |-> <<>>], rows |-> 0, resets |-> {}]

\* Sim.__init__: both events cleared, connection_thread at wants_connection.wait().
\* tries is history: the commands of one kind that have failed in a row.
SimIdle == [pc |-> "wait", wants |-> FALSE, connected |-> FALSE, i |-> 0,
            max_retries |-> MaxRetries, tries |-> 0, raised |-> FALSE]

Parked ==
    /\ ticker = TickerIdle
    /\ sock = SockIdle
    /\ sim = SimIdle
    /\ hms = [seconds |-> 0, minutes |-> 0, hours |-> 0]

\* run() up to the while loop: initialize_settings, then initialize_nodes,
\* which leaves every drive at SWITCH_ON_DISABLED and broadcasts SWITCHED_ON.
InitWith(stores, counts) ==
    /\ settings \in stores
    /\ \E k \in counts : nodes_list = [i \in 1..k |-> i]
    /\ fault \in [Nodes -> BOOLEAN]
    /\ sw_bits = [n \in Nodes |-> {}]
    /\ velocity = [n \in Nodes |-> 0]
    /\ speed = 0
    /\ LET net == set_network_state(
                     [state |-> None, speed |-> 0, velocity |-> velocity, tr |-> <<>>,
                      cw |-> [n \in Nodes |-> SWITCH_ON_DISABLED]], SWITCHED_ON)
       IN  /\ state = net.state
           /\ cw = net.cw
           /\ trace = net.tr
    /\ LET s == initialize_settings(settings)
       IN  /\ anti_drip = s.anti_drip
           /\ operator_pump_start = s.operator_pump_start
           /\ target_pressure = s.target_pressure
           /\ anti_drip_start_count_limit = s.anti_drip_start_count_limit
           /\ anti_drip_min_period = s.anti_drip_min_period
           /\ anti_drip_time_limit = s.anti_drip_time_limit
    /\ running = FALSE
    /\ last_started = None
    /\ anti_drip_start_count = 0
    /\ anti_drip_current_time_frame = 0
    /\ alive = TRUE
    /\ read_queue = <<>>
    /\ write_queue = <<>>
    /\ pending = "none"
    /\ lastOp = "init"
    /\ lastCmd = "none"
    /\ tickIn = NoTickIn

\* The control loop over a station of at most one drive.
Init == InitWith(InitialStores, {0, 1}) /\ Parked

\* The fleet manager over 0..MaxNodes drives, on a fresh database.
InitFleet == InitWith(FreshStores, 0..MaxNodes) /\ Parked

\* The anti-drip policy on a station of one drive.
InitDrip == InitWith(DripStores, {1}) /\ Parked

\* The fleet and the history after a handler: what it wrote and what it put.
Commit(net) ==
    /\ state' = net.state
    /\ speed' = net.speed
    /\ cw' = net.cw
    /\ velocity' = net.velocity
    /\ trace' = net.tr

Put(net) == Log(net, Ev("put", 0, 0))

\* ---- command phase: read_queue.get returned a command
\* (variant: RUN does not reset the faulty drives)
RunWithoutReset ==
    /\ alive /\ read_queue # <<>> /\ Head(read_queue) = "RUN"
    /\ read_queue' = Tail(read_queue)
    /\ operator_pump_start' = TRUE
    /\ Commit(Put(Net))
    /\ settings' = [settings EXCEPT !["Operator_Pump_start"] = Format(1)]
    /\ write_queue' = Append(write_queue, "OK")
    /\ lastOp' = "RUN"
    /\ UNCHANGED <<pending, sideVars>>
    /\ lastCmd' = "RUN"
    /\ UNCHANGED <<nodes_list, fault, sw_bits, anti_drip, running, target_pressure,
                   anti_drip_start_count_limit, anti_drip_min_period, anti_drip_time_limit,
                   last_started, anti_drip_start_count, anti_drip_current_time_frame,
                   alive>>
    /\ tickIn' = NoTickIn

Run ==
    /\ alive /\ read_queue # <<>> /\ Head(read_queue) = "RUN"
    /\ read_queue' = Tail(read_queue)
    /\ operator_pump_start' = TRUE
    /\ Commit(Put(reset_faulty_nodes(Net)))
    /\ \E cleared \in SUBSET Resettable :
          fault' = [n \in Nodes |-> fault[n] /\ n \notin cleared]
    /\ settings' = [settings EXCEPT !["Operator_Pump_start"] = Format(1)]
    /\ write_queue' = Append(write_queue, "OK")
    /\ lastOp' = "RUN"
    /\ UNCHANGED <<pending, sideVars>>
    /\ lastCmd' = "RUN"
    /\ UNCHANGED <<nodes_list, sw_bits, anti_drip, running, target_pressure,
                   anti_drip_start_count_limit, anti_drip_min_period, anti_drip_time_limit,
                   last_started, anti_drip_start_count, anti_drip_current_time_frame,
                   alive>>
    /\ tickIn' = NoTickIn

\* (variant: STOP answers without stopping the fleet)
StopNotSent ==
    /\ alive /\ read_queue # <<>> /\ Head(read_queue) = "STOP"
    /\ read_queue' = Tail(read_queue)
    /\ operator_pump_start' = FALSE
    /\ settings' = [settings EXCEPT !["Operator_Pump_start"] = Format(0)]
    /\ Commit(Put(Net))
    /\ running' = FALSE
    /\ write_queue' = Append(write_queue, "OK")
    /\ lastOp' = "STOP"
    /\ UNCHANGED <<pending, sideVars>>
    /\ lastCmd' = "STOP"
    /\ UNCHANGED <<nodes_list, fault, sw_bits, anti_drip, target_pressure,
                   anti_drip_start_count_limit, anti_drip_min_period, anti_drip_time_limit,
                   last_started, anti_drip_start_count, anti_drip_current_time_frame,
                   alive>>
    /\ tickIn' = NoTickIn

Stop ==
    /\ alive /\ read_queue # <<>> /\ Head(read_queue) = "STOP"
    /\ read_queue' = Tail(read_queue)
    /\ operator_pump_start' = FALSE
    /\ settings' = [settings EXCEPT !["Operator_Pump_start"] = Format(0)]
    /\ Commit(Put(stop_all_nodes(Net)))
    /\ running' = FALSE
    /\ write_queue' = Append(write_queue, "OK")
    /\ lastOp' = "STOP"
    /\ UNCHANGED <<pending, sideVars>>
    /\ lastCmd' = "STOP"
    /\ UNCHANGED <<nodes_list, fault, sw_bits, anti_drip, target_pressure,
                   anti_drip_start_count_limit, anti_drip_min_period, anti_drip_time_limit,
                   last_started, anti_drip_start_count, anti_drip_current_time_frame,
                   alive>>
    /\ tickIn' = NoTickIn

\* __build_data__: the three sensors are read from nodes_list[0]
build_data(inlet, temp, raw) ==
    [inlet_pressure |-> inlet,
     inlet_temperature |-> temp,
     outlet_pressure |-> raw,
     outlet_pressure_target |-> settings["Pressione_Uscita_Target"],
     working_hours_counter |-> settings["impianto_BK_Counter_hour"],
     working_minutes_counter |-> settings["impianto_BK_Counter_min"],
     anti_drip |-> anti_drip,
     alarms |-> get_faulty_nodes,
     tl_service |-> settings["impianto_TL_SERVICE"],
     bk_service |-> settings["impianto_BK_SERVICE"],
     rb_service |-> settings["impianto_RB_SERVICE"],
     run |-> operator_pump_start,
     running |-> running]

GetInfo ==
    /\ alive /\ read_queue # <<>> /\ Head(read_queue) = "GET_INFO"
    /\ read_queue' = Tail(read_queue)
    /\ lastOp' = "GET_INFO"
    /\ UNCHANGED <<pending, sideVars>>
    /\ IF nodes_list = <<>>
       THEN \* nodes_list[0] raises IndexError: run() ends, nothing is put
            /\ alive' = FALSE
            /\ trace' = <<>>
            /\ UNCHANGED write_queue
       ELSE /\ \E r \in InfoReadings :
                  write_queue' = Append(write_queue, build_data(r[1], r[2], r[3]))
            /\ trace' = <<Ev("put", 0, 0)>>
            /\ UNCHANGED alive
    /\ UNCHANGED <<netVars, anti_drip, operator_pump_start, running, target_pressure,
                   anti_drip_start_count_limit, anti_drip_min_period, anti_drip_time_limit,
                   last_started, anti_drip_start_count, anti_drip_current_time_frame,
                   settings, lastCmd>>
    /\ tickIn' = NoTickIn

\* (variant: the command is acknowledged and the setting is not read again)
ResetPressureTargetNotLoaded ==
    /\ alive /\ read_queue # <<>> /\ Head(read_queue) = "RESET_PRESSURE_TARGET"
    /\ read_queue' = Tail(read_queue)
    /\ write_queue' = Append(write_queue, "OK")
    /\ lastOp' = "RESET_PRESSURE_TARGET"
    /\ UNCHANGED <<pending, sideVars>>
    /\ trace' = <<Ev("put", 0, 0)>>
    /\ UNCHANGED <<netVars, procVars, settings, lastCmd>>
    /\ tickIn' = NoTickIn

ResetPressureTarget ==
    /\ alive /\ read_queue # <<>> /\ Head(read_queue) = "RESET_PRESSURE_TARGET"
    /\ read_queue' = Tail(read_queue)
    /\ lastOp' = "RESET_PRESSURE_TARGET"
    /\ UNCHANGED <<pending, sideVars>>
    /\ IF IsInt(settings["Pressione_Uscita_Target"])
       THEN /\ target_pressure' = IntOf(settings["Pressione_Uscita_Target"])
            /\ write_queue' = Append(write_queue, "OK")
            /\ trace' = <<Ev("put", 0, 0)>>
            /\ UNCHANGED alive
       ELSE \* int() raises ValueError: run() ends, nothing is put
            /\ alive' = FALSE
            /\ trace' = <<>>
            /\ UNCHANGED <<target_pressure, write_queue>>
    /\ UNCHANGED <<netVars, anti_drip, operator_pump_start, running,
                   anti_drip_start_count_limit, anti_drip_min_period, anti_drip_time_limit,
                   last_started, anti_drip_start_count, anti_drip_current_time_frame,
                   settings, lastCmd>>
    /\ tickIn' = NoTickIn

\* (variant: an unknown command is dropped without a response)
InvalidIgnored ==
    /\ alive /\ read_queue # <<>>
    /\ Head(read_queue) \notin {"RUN", "STOP", "GET_INFO", "RESET_PRESSURE_TARGET"}
    /\ read_queue' = Tail(read_queue)
    /\ lastOp' = "INVALID"
    /\ UNCHANGED <<pending, sideVars>>
    /\ trace' = <<>>
    /\ tickIn' = NoTickIn
    /\ UNCHANGED <<netVars, procVars, settings, write_queue, lastCmd>>

\* any other command: result stays "INVALID"
Invalid ==
    /\ alive /\ read_queue # <<>>
    /\ Head(read_queue) \notin {"RUN", "STOP", "GET_INFO", "RESET_PRESSURE_TARGET"}
    /\ read_queue' = Tail(read_queue)
    /\ write_queue' = Append(write_queue, "INVALID")
    /\ lastOp' = "INVALID"
    /\ UNCHANGED <<pending, sideVars>>
    /\ trace' = <<Ev("put", 0, 0)>>
    /\ tickIn' = NoTickIn
    /\ UNCHANGED <<netVars, procVars, settings, lastCmd>>

\* ---- periodic phase: read_queue.get timed out (queue.Empty)
\* Seconds elapsed since a stored datetime, dt seconds later (saturated at cap).
Aged(t, dt, cap) == IF t = None THEN None ELSE Min(t + dt, cap)

\* (variant: no cap)
SpeedForUncapped(difference10) == (difference10 * SpeedGain) \div 10

\* The speed of line 153, from the error in tenths of a bar.
SpeedFor(difference10) == Min((difference10 * SpeedGain) \div 10, SpeedCap)

\* (variant: the reading is not checked)
InletAlwaysValid(inlet) == TRUE

\* (variant: an invalid reading is latched in the store)
InletValidLatched(inlet) == inlet = 1 /\ settings["Pressione_Ingresso_OK"] = "1"

\* Line 139: the inlet reading is the drive's digital input 17; the loop takes
\* 1 as valid (min_inlet_pressure and max_inlet_pressure are loaded, not used).
InletValid(inlet) == inlet = 1

\* (variant: only the TL flag locks)
LockedOnlyByTL(store) == ToInt(store["impianto_TL_SERVICE"]) # 0

\* Line 141, on the flags read at lines 131-133.
Locked(store) ==
    ~(ToInt(store["impianto_TL_SERVICE"]) = 0
      /\ ToInt(store["impianto_BK_SERVICE"]) = 0
      /\ ToInt(store["impianto_RB_SERVICE"]) = 0)

\* (variants: anti-drip, or the run request, is not consulted)
MayRunDespiteAntiDrip(raw, ad) == raw < 10 * target_pressure /\ operator_pump_start

MayRunUnrequested(raw, ad) == raw < 10 * target_pressure /\ ~ad

\* Lines 142-143.
MayRun(raw, ad) == raw < 10 * target_pressure /\ ~ad /\ operator_pump_start

\* Lines 139-171: what the loop does with the fleet, given the readings.
\* Yields [net, running, started]: started is TRUE when the fleet was started.
Decide(net, inlet, raw, locked, ad) ==
    IF InletValid(inlet)
    THEN IF ~locked
         THEN IF MayRun(raw, ad)
              THEN LET difference10 == 10 * target_pressure - raw
                       net1 == IF ~running THEN run_all_nodes(net) ELSE net
                   IN  IF difference10 > 0
                       THEN [net |-> set_speed_all_nodes(net1, SpeedFor(difference10)),
                             running |-> TRUE, started |-> ~running]
                       ELSE [net |-> stop_all_nodes(set_speed_all_nodes(net1, 0)),
                             running |-> FALSE, started |-> ~running]
              ELSE [net |-> stop_all_nodes(net), running |-> FALSE, started |-> FALSE]
         ELSE [net |-> stop_all_nodes(net), running |-> FALSE, started |-> FALSE]
    ELSE [net |-> stop_all_nodes(net), running |-> FALSE, started |-> FALSE]

\* (variant: the trigger waits for one start more than the limit)
TriggerReachedLate(count) == count > anti_drip_start_count_limit

\* Line 126.
TriggerReached(count) == count = anti_drip_start_count_limit

\* (variant: a new window clears the flag)
AntiDripClearedByWindow(expired, trigger) ==
    IF expired THEN FALSE ELSE anti_drip \/ trigger

\* Lines 123-128: self.anti_drip is set when the trigger is reached and is not
\* assigned otherwise.
AntiDripAfter(expired, trigger) == anti_drip \/ trigger

\* (variant: every start of the fleet opens a new episode)
OpenEpisodeAlways(started, since) == IF started THEN 0 ELSE since

\* Lines 149-150: last_started = datetime.now() if it is None; since is the
\* age of last_started at this tick, None if it is not set.
OpenEpisode(started, since) == IF started /\ since = None THEN 0 ELSE since

\* (variant: the tick also clears the service flags)
PersistClearsLocks(store, inlet) ==
    [store EXCEPT !["Pressione_Ingresso_OK"] = Format(IF InletValid(inlet) THEN 1 ELSE 0),
                  !["Pressione_Ingresso"] = Format(inlet),
                  !["impianto_TL_SERVICE"] = Format(0),
                  !["impianto_BK_SERVICE"] = Format(0),
                  !["impianto_RB_SERVICE"] = Format(0)]

\* Lines 140, 170 and 174: what the periodic phase writes to the store.
Persist(store, inlet) ==
    [store EXCEPT !["Pressione_Ingresso_OK"] = Format(IF InletValid(inlet) THEN 1 ELSE 0),
                  !["Pressione_Ingresso"] = Format(inlet)]

\* (variant: the periodic phase does not wait for the queue to be empty)
PollAlwaysTimesOut == TRUE

\* Lines 82 and 103: read_queue.get(timeout=1) raises Empty.
PollTimesOut == read_queue = <<>>

\* The poll of line 82 times out after a second without a command; the socket
\* process, blocked in read_queue.get() since it put its command, has taken the
\* response by then.
Tick(dt, inlet, raw) ==
    /\ alive /\ PollTimesOut /\ write_queue = <<>>
    /\ LET age == Aged(last_started, dt, anti_drip_min_period)
           counted == age # None /\ age >= anti_drip_min_period
           count1 == IF counted THEN anti_drip_start_count + 1 ELSE anti_drip_start_count
           started1 == IF counted THEN None ELSE age
           frame == Min(anti_drip_current_time_frame + dt, anti_drip_time_limit + 1)
           expired == frame > anti_drip_time_limit
           trigger == ~expired /\ TriggerReached(count1)
           ad == AntiDripAfter(expired, trigger)
           store1 == IF trigger THEN [settings EXCEPT !["Antisgocc_OK"] = Format(0)]
                     ELSE settings
           locked == Locked(settings)
       IN  /\ anti_drip_start_count' = (IF expired THEN 0 ELSE count1)
           /\ anti_drip_current_time_frame' = (IF expired THEN 0 ELSE frame)
           /\ anti_drip' = ad
           /\ lastOp' = "tick"
           /\ UNCHANGED <<pending, sideVars>>
           /\ IF nodes_list = <<>>
              THEN \* read_outlet_pressure: nodes_list[0] raises IndexError
                   /\ alive' = FALSE
                   /\ last_started' = started1
                   /\ settings' = store1
                   /\ trace' = <<>>
                   /\ tickIn' = NoTickIn
                   /\ UNCHANGED <<state, speed, cw, velocity, running>>
              ELSE LET d == Decide(Net, inlet, raw, locked, ad)
                   IN  /\ Commit(d.net)
                       /\ running' = d.running
                       /\ last_started' = OpenEpisode(d.started, started1)
                       /\ settings' = Persist(store1, inlet)
                       /\ tickIn' = [inlet |-> inlet, raw |-> raw, anti_drip |-> ad,
                                     run |-> operator_pump_start,
                                     wasRunning |-> running, target |-> target_pressure,
                                     prevTick |-> IF lastOp = "tick"
                                                  THEN settings["Pressione_Ingresso_OK"]
                                                  ELSE "none"]
                       /\ UNCHANGED alive
    /\ UNCHANGED <<nodes_list, fault, sw_bits, operator_pump_start, target_pressure,
                   anti_drip_start_count_limit, anti_drip_min_period, anti_drip_time_limit,
                   read_queue, write_queue, lastCmd>>

\* ---- the other processes and the drives
\* A step of another process or of a drive ends the record of the last handler.
EnvStep ==
    /\ lastOp' = "env"
    /\ UNCHANGED sideVars
    /\ tickIn' = NoTickIn
    /\ trace' = <<>>
    /\ UNCHANGED lastCmd

\* SocketProcess.run: a command of the server is put on the queue. The process
\* then blocks in read_queue.get(), so one command is in flight at a time.
\* (variant: the process does not wait for the response)
IdleWithoutWaiting == TRUE

\* Line 285: the process runs and is not blocked in read_queue.get().
Idle == pending = "none" /\ sock.alive

Enqueue(c) ==
    /\ Idle
    /\ read_queue' = Append(read_queue, c)
    /\ pending' = c
    /\ EnvStep
    /\ UNCHANGED <<netVars, procVars, settings, write_queue>>

\* SocketProcess.run, 'SET_PRESSURE_TARGET: <n>': the setting is written as
\* the string n of the command, then RESET_PRESSURE_TARGET is put on the queue
SetPressureTarget(n) ==
    /\ Idle
    /\ settings' = [settings EXCEPT !["Pressione_Uscita_Target"] = n]
    /\ read_queue' = Append(read_queue, "RESET_PRESSURE_TARGET")
    /\ pending' = "RESET_PRESSURE_TARGET"
    /\ EnvStep
    /\ UNCHANGED <<netVars, procVars, write_queue>>

\* SocketProcess.run: read_queue.get() takes the response
Receive ==
    /\ write_queue # <<>>
    /\ write_queue' = Tail(write_queue)
    /\ pending' = "none"
    /\ EnvStep
    /\ UNCHANGED <<netVars, procVars, settings, read_queue>>

\* time_updater sets a service flag; reset_time_limit clears it
ServiceLock(k) ==
    /\ settings[k] = "0"
    /\ settings' = [settings EXCEPT ![k] = "1"]
    /\ EnvStep
    /\ UNCHANGED pending
    /\ UNCHANGED <<netVars, procVars, read_queue, write_queue>>

ServiceReset(k) ==
    /\ settings[k] = "1"
    /\ settings' = [settings EXCEPT ![k] = "0"]
    /\ EnvStep
    /\ UNCHANGED pending
    /\ UNCHANGED <<netVars, procVars, read_queue, write_queue>>

\* a drive latches a fault
FaultOccurs(n) ==
    /\ ~fault[n]
    /\ fault' = [fault EXCEPT ![n] = TRUE]
    /\ EnvStep
    /\ UNCHANGED pending
    /\ UNCHANGED <<nodes_list, state, speed, cw, velocity, sw_bits, procVars, settings,
                   read_queue, write_queue>>

\* a drive changes bits 1 and 2 of its Statusword
StatusChange(n, bits) ==
    /\ sw_bits[n] # bits
    /\ sw_bits' = [sw_bits EXCEPT ![n] = bits]
    /\ EnvStep
    /\ UNCHANGED pending
    /\ UNCHANGED <<nodes_list, state, speed, cw, velocity, fault, procVars, settings,
                   read_queue, write_queue>>

\* The program is started again, on fresh queues: CanProcess.__init__ and
\* run() up to the while loop, as in Init.
\* initialize_nodes resets each faulty drive on a new node object (line 151),
\* writes SWITCH_ON_DISABLED to every drive and broadcasts SWITCHED_ON.
Restart ==
    /\ \E cleared \in SUBSET {n \in Nodes : fault[n]} :
          LET f2 == [n \in Nodes |-> fault[n] /\ n \notin cleared]
              ok == SelectSeq(nodes_list, LAMBDA n : ~f2[n])
          IN  /\ fault' = f2
              /\ cw' = [n \in Nodes |-> IF f2[n] THEN SWITCH_ON_DISABLED ELSE SWITCHED_ON]
              /\ trace' = [i \in 1..Len(ok) |-> Ev("cw", ok[i], SWITCHED_ON)]
    /\ state' = SWITCHED_ON
    /\ speed' = 0
    /\ LET s == initialize_settings(settings)
       IN  /\ anti_drip' = s.anti_drip
           /\ operator_pump_start' = s.operator_pump_start
           /\ target_pressure' = s.target_pressure
           /\ anti_drip_start_count_limit' = s.anti_drip_start_count_limit
           /\ anti_drip_min_period' = s.anti_drip_min_period
           /\ anti_drip_time_limit' = s.anti_drip_time_limit
    /\ running' = FALSE
    /\ last_started' = None
    /\ anti_drip_start_count' = 0
    /\ anti_drip_current_time_frame' = 0
    /\ alive' = TRUE
    /\ read_queue' = <<>>
    /\ write_queue' = <<>>
    /\ lastOp' = "start"
    /\ pending' = "none"
    /\ UNCHANGED sideVars
    /\ tickIn' = NoTickIn
    /\ UNCHANGED <<nodes_list, velocity, sw_bits, settings, lastCmd>>

\* CanNetwork.get_state(node), called on a drive of the fleet
GetStateCall(n) ==
    /\ alive
    /\ trace' = <<Ev("get_state", n, get_state(n))>>
    /\ lastOp' = "get_state"
    /\ UNCHANGED <<pending, sideVars>>
    /\ tickIn' = NoTickIn
    /\ UNCHANGED <<netVars, procVars, settings, read_queue, write_queue, lastCmd>>

\* ---- SocketProcess.run on the response to GET_INFO
\* dict equality: the same keys with the same values
DictEq(a, b) == DOMAIN a = DOMAIN b /\ \A k \in DOMAIN a : a[k] = b[k]

\* Lines 289-290: del new_row["timestamp"] if it is there.
WithoutTimestamp(row) == [k \in DOMAIN row \ {"timestamp"} |-> row[k]]

\* insert_new_data_row (settingsmanager.py 211-214) adds start_code and
\* timestamp to the dictionary it is given when they are missing; the
\* timestamp is a datetime object.
insert_new_data_row(data, now) ==
    [k \in DOMAIN data \cup {"start_code", "timestamp"} |->
        IF k \in DOMAIN data THEN data[k]
        ELSE IF k = "start_code" THEN "0x000" ELSE [datetime |-> now]]

\* Lines 297-300: the fields of new_row that last_row lacks or holds with
\* another value.
to_update(last_row, new_row) ==
    [k \in {x \in DOMAIN new_row : x \notin DOMAIN last_row \/ last_row[x] # new_row[x]}
        |-> new_row[k]]

\* json.dumps raises TypeError on a datetime, the value held at timestamp.
JsonSerializable(d) == "timestamp" \notin DOMAIN d

\* Lines 288-303: the response to GET_INFO is taken, compared with last_row
\* and answered.  insert_new_data_row changes new_row in place, before
\* to_update is built from it and before it becomes last_row.
SockReceiveInfo(now) ==
    /\ sock.alive /\ pending = "GET_INFO" /\ write_queue # <<>>
    /\ write_queue' = Tail(write_queue)
    /\ LET new_row == WithoutTimestamp(Head(write_queue))
       IN  IF DictEq(sock.last_row, new_row)
           THEN /\ sock' = [sock EXCEPT !.answer = [kind |-> "NU", body |-> <<>>]]
                /\ pending' = "none"
           ELSE LET row == insert_new_data_row(new_row, now)
                    upd == to_update(sock.last_row, row)
                IN  IF JsonSerializable(upd)
                    THEN /\ sock' = [sock EXCEPT !.last_row = row, !.rows = 1,
                                                 !.answer = [kind |-> "json", body |-> upd]]
                         /\ pending' = "none"
                    ELSE \* TypeError at line 302: run() ends, nothing is sent
                         /\ sock' = [sock EXCEPT !.last_row = row, !.rows = 1,
                                                 !.alive = FALSE]
                         /\ pending' = "none"
    /\ lastOp' = "info_reply"
    /\ tickIn' = NoTickIn
    /\ trace' = <<>>
    /\ UNCHANGED <<netVars, procVars, settings, read_queue, ticker, sim, hms, lastCmd>>

\* GET_INFO from the server to the answer sent back, on one or more drives.
InitSocket == InitWith(FreshStores, 1..MaxNodes) /\ Parked

NextSocket ==
    \/ Enqueue("GET_INFO")
    \/ GetInfo
    \/ \E now \in {1, 2} : SockReceiveInfo(now)
    \/ \E n \in Nodes : FaultOccurs(n)

SpecSocket == InitSocket /\ [][NextSocket]_vars

\* ---- Sim: connect(), disconnect() and connection_thread
SimStep ==
    /\ lastOp' = "sim"
    /\ tickIn' = NoTickIn
    /\ trace' = <<>>
    /\ UNCHANGED <<netVars, procVars, settings, read_queue, write_queue, pending,
                   ticker, sock, hms, lastCmd>>

\* Sim.connect: wants_connection.set()
SimConnect ==
    /\ ~sim.wants
    /\ sim' = [sim EXCEPT !.wants = TRUE]
    /\ SimStep

\* Sim.disconnect: wants_connection.clear()
SimDisconnect ==
    /\ sim.wants
    /\ sim' = [sim EXCEPT !.wants = FALSE]
    /\ SimStep

\* range(1, self.max_retries): the values i takes in the two for loops
Attempts == 1..(sim.max_retries - 1)

\* Line 265: wants_connection.wait() returns.
SimWake ==
    /\ sim.pc = "wait" /\ sim.wants
    /\ sim' = [sim EXCEPT !.pc = "check", !.tries = 0]
    /\ SimStep

\* Lines 267-268: the test of the inner while loop, then __is_connected(),
\* which sets or clears the connected event; up is what sakis3g reports.
\* With wants_connection cleared the thread goes on to the disconnect loop.
SimCheck(up) ==
    /\ sim.pc = "check"
    /\ IF ~sim.wants
       THEN sim' = [sim EXCEPT !.pc = IF Attempts = {} THEN "wait" ELSE "disconnect",
                               !.i = 1, !.tries = 0]
       ELSE IF up
            THEN sim' = [sim EXCEPT !.connected = TRUE, !.pc = "sleep", !.tries = 0]
            ELSE sim' = [sim EXCEPT !.connected = FALSE, !.i = 1,
                                    !.pc = IF Attempts = {} THEN "sleep" ELSE "connect"]
    /\ SimStep

\* Lines 271-276 and 282-288: one pass of a for loop, as the thread's next
\* state.  The command succeeds (break), or it fails and i is compared with
\* max_retries, or the range is used up and the loop ends.
Attempt(loop, after, ok) ==
    IF ok
    THEN [sim EXCEPT !.connected = (loop = "connect"), !.pc = after, !.tries = 0]
    ELSE IF sim.i = sim.max_retries
         THEN [sim EXCEPT !.connected = (loop # "connect"), !.tries = @ + 1,
                          !.raised = TRUE, !.pc = "ended"]
         ELSE [sim EXCEPT !.connected = (loop # "connect"), !.tries = @ + 1,
                          !.i = @ + 1,
                          !.pc = IF sim.i + 1 \in Attempts THEN loop ELSE after]

\* __connect_command() in the loop of lines 271-276; the failures counted in
\* tries are followed up to one past max_retries.
SimConnectAttempt(ok) ==
    /\ sim.pc = "connect"
    /\ sim.tries <= sim.max_retries
    /\ sim' = Attempt("connect", "sleep", ok)
    /\ SimStep

\* __disconnect_command() in the loop of lines 282-288
SimDisconnectAttempt(ok) ==
    /\ sim.pc = "disconnect"
    /\ sim' = Attempt("disconnect", "wait", ok)
    /\ SimStep

\* Line 277: time.sleep(1), then the while test again.
SimSleep ==
    /\ sim.pc = "sleep"
    /\ sim' = [sim EXCEPT !.pc = "check"]
    /\ SimStep

\* The modem thread for max_retries from 1 to the default.
InitSim ==
    /\ InitWith(FreshStores, {0})
    /\ ticker = TickerIdle
    /\ sock = SockIdle
    /\ hms = [seconds |-> 0, minutes |-> 0, hours |-> 0]
    /\ \E m \in 1..MaxRetries : sim = [SimIdle EXCEPT !.max_retries = m]

NextSim ==
    \/ SimConnect
    \/ SimDisconnect
    \/ SimWake
    \/ \E up \in BOOLEAN : SimCheck(up)
    \/ \E ok \in BOOLEAN : SimConnectAttempt(ok)
    \/ \E ok \in BOOLEAN : SimDisconnectAttempt(ok)
    \/ SimSleep

SpecSim == InitSim /\ [][NextSim]_vars

\* ---- timeprocess.time_increase
\* (variant: a full minute is not carried into the hours)
time_increase_no_hour_carry(t) ==
    LET s1 == t.seconds + 1
        m1 == IF s1 = 60 THEN t.minutes + 1 ELSE t.minutes
        s2 == IF s1 = 60 THEN 0 ELSE s1
    IN  [seconds |-> s2, minutes |-> IF m1 = 60 THEN 0 ELSE m1, hours |-> t.hours]

\* Lines 14-21, on the triple [seconds, minutes, hours].
time_increase(t) ==
    LET s1 == t.seconds + 1
        m1 == IF s1 = 60 THEN t.minutes + 1 ELSE t.minutes
        s2 == IF s1 = 60 THEN 0 ELSE s1
        h1 == IF m1 = 60 THEN t.hours + 1 ELSE t.hours
        m2 == IF m1 = 60 THEN 0 ELSE m1
    IN  [seconds |-> s2, minutes |-> m2, hours |-> h1]

\* ---- timeprocess.time_updater and SocketProcess.reset_time_limit
\* A store of a configured station: limits of one or two hours, counters at
\* 0:59:59 or 1:59:59, each lock flag as the limit has it.
TickerStores ==
    {[k \in DOMAIN base |->
         IF \E c \in Counters : k \in {CounterKey(c, "hour"), CounterKey(c, "min"),
                                        CounterKey(c, "sec"), CounterKey(c, "SetCounter"),
                                        FlagKey(c)}
         THEN LET c == CHOOSE x \in Counters :
                          k \in {CounterKey(x, "hour"), CounterKey(x, "min"),
                                 CounterKey(x, "sec"), CounterKey(x, "SetCounter"),
                                 FlagKey(x)}
              IN  CASE k = CounterKey(c, "hour") -> h[c]
                    [] k = CounterKey(c, "SetCounter") -> l[c]
                    [] k = FlagKey(c) -> Format(IF Num(h[c]) >= Num(l[c]) THEN 1 ELSE 0)
                    [] OTHER -> "59"
         ELSE base[k]] :
       base \in FreshStores, h \in [Counters -> {"0", "1"}], l \in [Counters -> {"1", "2"}]}

\* (variant: the counters are read once before the loop)
TickerStartBound(store) ==
    [alive |-> TRUE,
     run |-> Num(store["Operator_Pump_start"]),
     reset |-> 0,
     limit |-> [c \in Counters |-> Num(store[CounterKey(c, "SetCounter")])],
     hour |-> [c \in Counters |-> Num(store[CounterKey(c, "hour")])],
     min |-> [c \in Counters |-> Num(store[CounterKey(c, "min")])],
     sec |-> [c \in Counters |-> Num(store[CounterKey(c, "sec")])]]

\* Lines 24-35, started by SocketProcess.run (273-275) with reset = 0, a copy
\* of time_updater_reset that the process never sees change.  The limits and
\* the run request are read; rb_hour, bk_hour, tl_hour and the minutes and
\* seconds are locals that nothing has assigned.
TickerStart(store) ==
    [alive |-> TRUE,
     run |-> Num(store["Operator_Pump_start"]),
     reset |-> 0,
     limit |-> [c \in Counters |-> Num(store[CounterKey(c, "SetCounter")])],
     hour |-> [c \in Counters |-> Unbound],
     min |-> [c \in Counters |-> Unbound],
     sec |-> [c \in Counters |-> Unbound]]

\* Lines 46-80 for locals that are bound: a counter below its limit is read,
\* increased and, at the limit, locked; all nine locals are written back.
TickerBody(store) ==
    LET reads(c) == ticker.hour[c] < ticker.limit[c]
        t(c) == IF reads(c)
                THEN time_increase([seconds |-> Num(store[CounterKey(c, "sec")]),
                                    minutes |-> Num(store[CounterKey(c, "min")]),
                                    hours |-> Num(store[CounterKey(c, "hour")])])
                ELSE [seconds |-> ticker.sec[c], minutes |-> ticker.min[c],
                      hours |-> ticker.hour[c]]
    IN  [store |->
           [k \in DOMAIN store |->
              IF \E c \in Counters : k \in {CounterKey(c, "hour"), CounterKey(c, "min"),
                                             CounterKey(c, "sec"), FlagKey(c)}
              THEN LET c == CHOOSE x \in Counters :
                               k \in {CounterKey(x, "hour"), CounterKey(x, "min"),
                                      CounterKey(x, "sec"), FlagKey(x)}
                   IN  CASE k = CounterKey(c, "hour") -> Str(t(c).hours)
                         [] k = CounterKey(c, "min") -> Str(t(c).minutes)
                         [] k = CounterKey(c, "sec") -> Str(t(c).seconds)
                         [] OTHER -> IF reads(c) /\ t(c).hours >= ticker.limit[c]
                                     THEN Format(1) ELSE store[k]
              ELSE store[k]],
         hour |-> [c \in Counters |-> t(c).hours],
         min |-> [c \in Counters |-> t(c).minutes],
         sec |-> [c \in Counters |-> t(c).seconds]]

\* One iteration of the while loop of time_updater (lines 36-88).
TickerStep ==
    /\ ticker.alive
    /\ IF ticker.run = 1 /\ ticker.reset = 0
       THEN IF \E c \in Counters : ticker.hour[c] = Unbound
            THEN \* line 46: rb_hour is read before it is assigned
                 \* (UnboundLocalError); the process ends
                 /\ ticker' = [ticker EXCEPT !.alive = FALSE]
                 /\ UNCHANGED settings
            ELSE LET b == TickerBody(settings)
                 IN  /\ settings' = b.store
                     /\ ticker' = [ticker EXCEPT !.hour = b.hour, !.min = b.min,
                                                 !.sec = b.sec,
                                                 !.run = Num(b.store["Operator_Pump_start"])]
       ELSE /\ ticker' = [ticker EXCEPT !.run = Num(settings["Operator_Pump_start"])]
            /\ UNCHANGED settings
    /\ lastOp' = "ticker"
    /\ tickIn' = NoTickIn
    /\ trace' = <<>>
    /\ UNCHANGED <<netVars, procVars, read_queue, write_queue, pending, sock, sim, hms,
                   lastCmd>>

\* SocketProcess.run on RESET_TL, RESET_BK, RESET_RB: reset_time_limit (222-233)
\* writes 0 to the counter's hours, minutes, seconds and lock flag.
ResetTimeLimit(c) ==
    /\ Idle /\ sock.alive
    /\ settings' = [settings EXCEPT ![CounterKey(c, "hour")] = Format(0),
                                    ![CounterKey(c, "min")] = Format(0),
                                    ![CounterKey(c, "sec")] = Format(0),
                                    ![FlagKey(c)] = Format(0)]
    /\ sock' = [sock EXCEPT !.resets = @ \cup {c}]
    /\ lastOp' = "reset"
    /\ tickIn' = NoTickIn
    /\ trace' = <<>>
    /\ UNCHANGED <<netVars, procVars, read_queue, write_queue, pending, ticker, sim, hms,
                   lastCmd>>

\* The three processes on a configured station.
InitTicker ==
    /\ InitWith(TickerStores, {1})
    /\ ticker = TickerStart(settings)
    /\ sock = SockIdle
    /\ sim = SimIdle
    /\ hms = [seconds |-> 0, minutes |-> 0, hours |-> 0]

\* The ticker beside RUN, STOP and the counter resets.
NextTicker ==
    \/ TickerStep
    \/ \E c \in Counters : ResetTimeLimit(c)
    \/ Run
    \/ Stop
    \/ \E c \in {"RUN", "STOP"} : Enqueue(c)
    \/ Receive

SpecTicker == InitTicker /\ [][NextTicker]_vars

\* One call of time_increase on the triple it returned last.
TimeIncrease ==
    /\ hms.hours < MaxHours
    /\ hms' = time_increase(hms)
    /\ lastOp' = "time_increase"
    /\ tickIn' = NoTickIn
    /\ trace' = <<>>
    /\ UNCHANGED <<netVars, procVars, settings, read_queue, write_queue, pending,
                   ticker, sock, sim, lastCmd>>

\* time_increase on triples within the ranges the ticker keeps.
InitTime ==
    /\ InitWith(FreshStores, {0})
    /\ ticker = TickerIdle
    /\ sock = SockIdle
    /\ sim = SimIdle
    /\ hms \in [seconds : 0..59, minutes : {0, 58, 59}, hours : {0, MaxHours - 1}]

NextTime == TimeIncrease

SpecTime == InitTime /\ [][NextTime]_vars

Next ==
    \/ Run
    \/ Stop
    \/ GetInfo
    \/ ResetPressureTarget
    \/ Invalid
    \/ \E dt \in Dts, inlet \in {0, 1}, raw \in OutletReadings : Tick(dt, inlet, raw)
    \/ \E c \in Commands \ {"RESET_PRESSURE_TARGET"} : Enqueue(c)
    \/ \E n \in TargetArgs : SetPressureTarget(n)
    \/ Receive
    \/ \E k \in Services : ServiceLock(k)
    \/ \E k \in Services : ServiceReset(k)
    \/ \E n \in Nodes : FaultOccurs(n)

Spec == Init /\ [][Next]_vars

\* The fleet manager under RUN, STOP, GET_INFO and the periodic phase.
NextFleet ==
    \/ Run
    \/ Stop
    \/ GetInfo
    \/ \E dt \in Dts, inlet \in {0, 1}, raw \in OutletReadings : Tick(dt, inlet, raw)
    \/ \E c \in {"RUN", "STOP", "GET_INFO"} : Enqueue(c)
    \/ Receive
    \/ \E n \in Nodes : FaultOccurs(n)

SpecFleet == InitFleet /\ [][NextFleet]_vars

\* The anti-drip policy under RUN, STOP, the periodic phase and restarts.
NextDrip ==
    \/ Run
    \/ Stop
    \/ \E dt \in Dts, inlet \in {0, 1}, raw \in OutletReadings : Tick(dt, inlet, raw)
    \/ \E c \in {"RUN", "STOP"} : Enqueue(c)
    \/ Receive
    \/ Restart

SpecDrip == InitDrip /\ [][NextDrip]_vars

\* The drives' status words as get_state reads them.
NextStatus ==
    \/ \E n \in Nodes : GetStateCall(n)
    \/ \E n \in Nodes, bits \in SUBSET {1, 2} : StatusChange(n, bits)
    \/ \E n \in Nodes : FaultOccurs(n)

SpecStatus == InitFleet /\ [][NextStatus]_vars

\* ------------------------------------------------------------- properties
Issued(e) == \E i \in 1..Len(trace) : trace[i].ev = e

\* The periodic phase has just run to its end.
Ticked == lastOp = "tick" /\ alive

AnyLocked == \E k \in Services : settings[k] = "1"

C2_ServiceLockStops ==
    (Ticked /\ tickIn.inlet = 1 /\ AnyLocked)
        => /\ Issued("stop_all")
           /\ ~running
           /\ ~Issued("run_all")
           /\ ~Issued("set_speed")
           /\ ~Issued("velocity")

C2_Witness ==
    /\ Ticked /\ tickIn.inlet = 1
    /\ settings["impianto_RB_SERVICE"] = "1" /\ settings["impianto_TL_SERVICE"] = "0"
    /\ tickIn.run /\ tickIn.wasRunning /\ ~tickIn.anti_drip
    /\ tickIn.raw < 10 * tickIn.target

\* C3: a periodic tick during which anti-drip is triggered leaves the fleet
\* stopped (running false, network state SWITCHED_ON) and issues neither
\* run_all nor a speed command.
C3_AntiDripStops ==
    (Ticked /\ anti_drip)
        => /\ ~running
           /\ state = 7
           /\ ~Issued("run_all")
           /\ ~Issued("set_speed")
           /\ ~Issued("velocity")

C3_Witness ==
    /\ Ticked /\ anti_drip /\ tickIn.wasRunning
    /\ tickIn.run /\ tickIn.inlet = 1 /\ ~AnyLocked
    /\ tickIn.raw < 10 * tickIn.target

\* C4: servicing STOP clears operator_pump_start and persists it, issues
\* stop_all before the response is put, leaves running false and the network
\* state SWITCHED_ON, and answers OK.
C4_StopCommand ==
    lastOp = "STOP"
        => /\ ~operator_pump_start
           /\ settings["Operator_Pump_start"] = "0"
           /\ \E i, j \in 1..Len(trace) :
                 i < j /\ trace[i].ev = "stop_all" /\ trace[j].ev = "put"
           /\ ~running
           /\ state = 7
           /\ write_queue # <<>>
           /\ write_queue[Len(write_queue)] = "OK"

\* STOP has just stopped a running fleet: its drive was written SWITCHED_ON.
C4_Witness ==
    /\ lastOp = "STOP"
    /\ \E i \in 1..Len(trace) : trace[i].ev = "cw" /\ trace[i].val = 7

\* C5: from the servicing of STOP until a RUN is serviced, running is false
\* and no periodic tick issues run_all or a speed command.
C5_StoppedUntilRun ==
    lastCmd = "STOP"
        => /\ ~running
           /\ lastOp = "tick" => (~Issued("run_all") /\ ~Issued("set_speed")
                                  /\ ~Issued("velocity"))

C5_Witness ==
    /\ lastCmd = "STOP" /\ Ticked
    /\ tickIn.inlet = 1 /\ ~AnyLocked /\ ~tickIn.anti_drip
    /\ tickIn.raw < 10 * tickIn.target

\* C6: a periodic tick with outlet pressure at or above the target (inlet
\* valid, no lock, anti-drip not triggered) commands speed 0 and stops the
\* fleet.
C6_TargetReachedSpeedZero ==
    (Ticked /\ tickIn.inlet = 1 /\ ~AnyLocked /\ ~tickIn.anti_drip
        /\ tickIn.raw >= 10 * tickIn.target)
        => /\ speed = 0
           /\ \A n \in Nodes : velocity[n] = 0
           /\ Issued("stop_all")
           /\ ~running

C8_RunningIsEnabled ==
    /\ running => state = 15
    /\ (lastOp = "GET_INFO" /\ alive)
          => write_queue[Len(write_queue)].running = running

C8_Witness ==
    /\ lastOp = "GET_INFO" /\ alive
    /\ write_queue[Len(write_queue)].running

\* C9: no control word and no speed setpoint is written to a drive whose
\* fault bit is set; only the fault-reset bit is.
C9_NoWriteToFaulty ==
    \A i \in 1..Len(trace) :
        trace[i].ev \in {"cw", "velocity"} => ~fault[trace[i].node]

\* C10: a broadcast to a network state other than the current one writes the
\* new control word to every drive that is not faulty and leaves the control
\* word of every faulty drive as it was.
C10_FaultyNeverBlocks ==
    [][state' # state =>
          \A n \in Nodes :
              IF fault[n]
              THEN /\ cw'[n] = cw[n]
                   /\ \A i \in 1..Len(trace') : trace'[i].ev = "cw" => trace'[i].node # n
              ELSE /\ cw'[n] = state'
                   /\ \E i \in 1..Len(trace') :
                         trace'[i] = [ev |-> "cw", node |-> n, val |-> state']]_vars

\* the fleet runs although one of its drives is faulty and was left behind
C10_Witness ==
    /\ Ticked /\ running
    /\ \E n, m \in Nodes : fault[n] /\ cw[n] # 15 /\ ~fault[m] /\ cw[m] = 15

\* C11: get_state answers FAULT whenever bit 3 of the status word is set,
\* whatever bits 1 and 2 are; otherwise OPERATION_ENABLED if bit 2 is set;
\* otherwise SWITCHED_ON if bit 1 is set; otherwise SWITCH_ON_DISABLED.
C11_StatePriority ==
    \A i \in 1..Len(trace) :
        trace[i].ev = "get_state" =>
            LET n == trace[i].node
                b3 == fault[n]
                b2 == 2 \in sw_bits[n]
                b1 == 1 \in sw_bits[n]
            IN  /\ b3 => trace[i].val = 0
                /\ (~b3 /\ b2) => trace[i].val = 15
                /\ (~b3 /\ ~b2 /\ b1) => trace[i].val = 7
                /\ (~b3 /\ ~b2 /\ ~b1) => trace[i].val = 128

\* a drive with bits 1 and 2 both set and no fault is asked for its state
C11_Witness ==
    \E i \in 1..Len(trace) :
        /\ trace[i].ev = "get_state"
        /\ ~fault[trace[i].node]
        /\ sw_bits[trace[i].node] = {1, 2}
        /\ trace[i].val = 15

\* The control word drive n holds just before event i of the handler whose
\* record is tr, when it held w0[n] as the handler began.
WordBefore(tr, w0, n, i) ==
    LET earlier == {j \in 1..(i - 1) : tr[j].ev \in {"cw", "bit7"} /\ tr[j].node = n}
    IN  IF earlier = {} THEN w0[n]
        ELSE tr[CHOOSE j \in earlier : \A k \in earlier : k <= j].val

\* C12: a broadcast writes OPERATION_ENABLED to a drive only if the control
\* word the drive held immediately before was SWITCHED_ON.
C12_EnabledOnlyFromSwitchedOn ==
    [][\A i \in 1..Len(trace') :
          (trace'[i].ev = "cw" /\ trace'[i].val = 15)
              => WordBefore(trace', cw, trace'[i].node, i) = 7]_vars

\* C13: the reset of a faulty drive makes a rising and then a falling edge on
\* bit 7 of its control word: the bit is 0 before the set step, 1 after it and
\* 0 after the clear step, whatever control word the drive holds.
C13_ResetEdge ==
    [][lastOp' = "RUN" =>
          \A n \in Nodes :
              fault[n] =>
                  \E i, j \in 1..Len(trace') :
                      /\ i < j
                      /\ trace'[i] = Ev("bit7", n, trace'[i].val)
                      /\ trace'[j] = Ev("bit7", n, trace'[j].val)
                      /\ Bit7(cw[n]) = 0
                      /\ Bit7(trace'[i].val) = 1
                      /\ Bit7(trace'[j].val) = 0]_vars

\* C14: the reset of a drive whose fault bit is clear does nothing: no write
\* goes to the drive, and its control word, its status and the network state
\* are as before.
C14_ResetNoOpOnHealthy ==
    [][lastOp' = "RUN" =>
          /\ state' = state
          /\ \A n \in Nodes :
                ~fault[n] =>
                    /\ cw'[n] = cw[n]
                    /\ ~fault'[n]
                    /\ sw_bits'[n] = sw_bits[n]
                    /\ \A i \in 1..Len(trace') : trace'[i].node # n]_vars

\* RUN has reset a faulty drive and left a healthy one alone
C14_Witness ==
    /\ lastOp = "RUN"
    /\ \E n, m \in Nodes :
          /\ \A i \in 1..Len(trace) : trace[i].node # n
          /\ cw[n] = 7
          /\ \E i \in 1..Len(trace) : trace[i].ev = "bit7" /\ trace[i].node = m

\* C15: for a limit N >= 1 of starts per window, once N starts have been
\* counted within one window the loop has set anti_drip and has written the
\* trigger (Antisgocc_OK = 0) to the settings store.
C15_TriggerAtLimit ==
    (anti_drip_start_count_limit >= 1
        /\ anti_drip_start_count = anti_drip_start_count_limit)
        => /\ anti_drip
           /\ settings["Antisgocc_OK"] = "0"

\* the third start of a window has just been counted, the fleet still running
C15_Witness ==
    /\ lastOp = "tick"
    /\ anti_drip_start_count_limit = 3
    /\ anti_drip_start_count = 3
    /\ tickIn.wasRunning
    /\ anti_drip

\* C16: an episode in which the fleet stopped before anti_drip_min_period had
\* elapsed since its start is never counted, however many ticks pass while the
\* fleet is stopped.
C16_ShortEpisodeNotCounted ==
    [][(~running /\ last_started # None /\ last_started < anti_drip_min_period)
          => anti_drip_start_count' <= anti_drip_start_count]_vars

\* C17: once anti_drip is true it is true in every later state of the control
\* loop; a new window resets the count and the window start and leaves it,
\* and neither a command nor a periodic tick clears it.
C17_AntiDripSticky ==
    [][anti_drip => anti_drip']_vars

\* the loop has triggered anti-drip and a later tick has begun a new window
C17_Witness ==
    /\ lastOp = "tick"
    /\ anti_drip
    /\ settings["Antisgocc_OK"] = "0"
    /\ anti_drip_start_count = 0
    /\ anti_drip_current_time_frame = 0

\* C18: a control process started again from the settings store has
\* anti_drip true if the store holds the trigger the loop persisted
\* (Antisgocc_OK = 0), and false if the store holds the fresh-database value
\* (Antisgocc_OK = 1).
C18_TriggerSurvivesRestart ==
    lastOp = "start" => (anti_drip <=> settings["Antisgocc_OK"] = "0")

\* C19: at process start operator_pump_start is the persisted
\* Operator_Pump_start flag: true after a RUN, false after a STOP, whatever
\* Antisgocc_OK holds.
C19_RunRequestRestored ==
    lastOp = "start"
        => /\ operator_pump_start <=> settings["Operator_Pump_start"] = "1"
           /\ lastCmd = "RUN" => operator_pump_start
           /\ lastCmd = "STOP" => ~operator_pump_start

\* C20: an iteration of the loop that finds a command on the queue services
\* that command and runs nothing of the periodic phase; the periodic phase
\* runs only when the poll finds the queue empty.
C20_CommandPreempts ==
    [][/\ lastOp' = "tick" => (read_queue = <<>> /\ read_queue' = <<>>)
       /\ (read_queue # <<>> /\ alive /\ lastOp' # "env")
             => /\ lastOp' \in {"RUN", "STOP", "GET_INFO", "RESET_PRESSURE_TARGET", "INVALID"}
                /\ read_queue' = Tail(read_queue)
                /\ tickIn' = NoTickIn
                /\ UNCHANGED <<last_started, anti_drip_start_count,
                               anti_drip_current_time_frame, anti_drip, speed, velocity>>
                /\ \A i \in 1..Len(trace') :
                      trace'[i].ev \notin {"run_all", "set_speed", "velocity"}]_vars

\* GET_INFO has been serviced in the middle of a running episode
C20_Witness ==
    /\ lastOp = "GET_INFO"
    /\ running
    /\ last_started # None
    /\ write_queue # <<>>

\* The response r is the one the loop gives to command c.
Answers(c, r) ==
    CASE c = "GET_INFO" -> r.running \in BOOLEAN
      [] c \in {"RUN", "STOP", "RESET_PRESSURE_TARGET"} -> r = "OK"
      [] OTHER -> r = "INVALID"

\* The step was a command handler of the loop.
CommandOps == {"RUN", "STOP", "GET_INFO", "RESET_PRESSURE_TARGET", "INVALID"}

\* C21: the loop takes the command at the head of the queue, one at a time,
\* and puts exactly one response for it at the end of the response queue, so
\* that responses come in the order of their commands; the periodic phase
\* puts nothing.
C21_OneResponsePerCommand ==
    [][/\ lastOp' \in CommandOps
             => /\ read_queue # <<>>
                /\ read_queue' = Tail(read_queue)
                /\ Len(write_queue') = Len(write_queue) + 1
                /\ SubSeq(write_queue', 1, Len(write_queue)) = write_queue
                /\ Answers(Head(read_queue), write_queue'[Len(write_queue')])
       /\ lastOp' = "tick" => write_queue' = write_queue]_vars

\* C25: with no drive found by the scan the control process keeps running:
\* neither a periodic tick nor GET_INFO ends it.
C25_EmptyFleetNoCrash ==
    (nodes_list = <<>> /\ lastOp \in {"tick", "GET_INFO"}) => alive

\* C22: a command other than RUN, STOP, GET_INFO and RESET_PRESSURE_TARGET
\* (the set-target command as it reaches the loop) is answered INVALID and
\* leaves the run request, running, the target, the network state, the
\* drives' words and setpoints and the settings store as they were.
C22_UnknownCommandInvalid ==
    [][(alive /\ read_queue # <<>> /\ lastOp' # "env"
          /\ Head(read_queue) \notin {"RUN", "STOP", "GET_INFO", "RESET_PRESSURE_TARGET"})
          => /\ lastOp' = "INVALID"
             /\ write_queue' = Append(write_queue, "INVALID")
             /\ UNCHANGED <<operator_pump_start, running, target_pressure, state,
                            speed, cw, velocity, settings, alive>>]_vars

\* an unknown command has been answered while the fleet runs
C22_Witness ==
    /\ lastOp = "INVALID"
    /\ running
    /\ write_queue = <<"INVALID">>

\* C23: servicing RUN sets operator_pump_start and persists it, writes the
\* bit-7 set and clear steps to every drive that is faulty at that moment and
\* answers OK; it changes neither running nor the network state nor the
\* speed setpoint.
C23_RunCommand ==
    [][lastOp' = "RUN" =>
          /\ operator_pump_start'
          /\ settings'["Operator_Pump_start"] = "1"
          /\ \A n \in Nodes :
                fault[n] =>
                    \E i, j \in 1..Len(trace') :
                        /\ i < j
                        /\ trace'[i].ev = "bit7" /\ trace'[i].node = n
                        /\ trace'[j].ev = "bit7" /\ trace'[j].node = n
                        /\ Bit7(trace'[i].val) = 1
                        /\ Bit7(trace'[j].val) = 0
                        /\ cw'[n] = trace'[j].val
          /\ write_queue' = Append(write_queue, "OK")
          /\ UNCHANGED <<running, state, speed, velocity>>]_vars

\* RUN has been serviced while the fleet runs with a faulty drive
C23_Witness ==
    /\ lastOp = "RUN"
    /\ running
    /\ state = 15
    /\ \E i \in 1..Len(trace) : trace[i].ev = "bit7"
    /\ write_queue = <<"OK">>

\* A set-target command is on its way to the loop.
TargetPending ==
    \E i \in 1..Len(read_queue) : read_queue[i] = "RESET_PRESSURE_TARGET"

\* C24: once SET_PRESSURE_TARGET: n has been acknowledged OK, and until the
\* next set-target, the loop's target_pressure is n, GET_INFO reports the
\* stored target, which reads as n, and the periodic ticks use n.
C24_TargetRoundTrip ==
    /\ (lastOp = "RESET_PRESSURE_TARGET" /\ alive)
          => /\ write_queue[Len(write_queue)] = "OK"
             /\ target_pressure = IntOf(settings["Pressione_Uscita_Target"])
    /\ (alive /\ ~TargetPending)
          => /\ IsInt(settings["Pressione_Uscita_Target"])
             /\ target_pressure = IntOf(settings["Pressione_Uscita_Target"])
    /\ (lastOp = "GET_INFO" /\ alive)
          => /\ write_queue[Len(write_queue)].outlet_pressure_target
                    = settings["Pressione_Uscita_Target"]
             /\ IntOf(write_queue[Len(write_queue)].outlet_pressure_target) = target_pressure
    /\ Ticked => tickIn.target = IntOf(settings["Pressione_Uscita_Target"])

\* GET_INFO after 'SET_PRESSURE_TARGET: 012' reports the target as stored
C24_Witness ==
    /\ lastOp = "GET_INFO" /\ alive
    /\ write_queue[Len(write_queue)].outlet_pressure_target = "012"
    /\ target_pressure = 12

\* C26: an invalid inlet reading is not latched: a periodic tick with a valid
\* inlet reading, no service lock, anti-drip not triggered, run requested and
\* the outlet below the target leaves the fleet running at OPERATION_ENABLED
\* with the inlet marked valid, and issues run_all if the fleet was stopped,
\* also when the tick before stopped it for an invalid reading.
C26_InletNotLatched ==
    (Ticked /\ tickIn.inlet = 1 /\ ~AnyLocked /\ ~tickIn.anti_drip /\ tickIn.run
        /\ tickIn.raw < 10 * tickIn.target)
        => /\ running
           /\ state = 15
           /\ settings["Pressione_Ingresso_OK"] = "1"
           /\ ~tickIn.wasRunning => Issued("run_all")
           /\ ~Issued("stop_all")

\* the fleet, stopped by a tick that marked the inlet invalid, is started again
C26_Witness ==
    /\ Ticked /\ tickIn.inlet = 1 /\ tickIn.run /\ ~tickIn.anti_drip
    /\ tickIn.prevTick = "0"
    /\ ~tickIn.wasRunning
    /\ running /\ Issued("run_all")

\* C27: the alarms of GET_INFO are exactly the ids of the drives whose fault
\* bit is set when GET_INFO is serviced, each listed once.
C27_AlarmsAreFaulty ==
    (lastOp = "GET_INFO" /\ alive)
        => LET alarms == write_queue[Len(write_queue)].alarms
           IN  /\ {alarms[i] : i \in 1..Len(alarms)} = {n \in Nodes : fault[n]}
               /\ Len(alarms) = Cardinality({n \in Nodes : fault[n]})

\* a faulty drive, left out of the broadcast that runs the other, is listed
C27_Witness ==
    /\ lastOp = "GET_INFO" /\ alive
    /\ running
    /\ \E n, m \in Nodes :
          /\ fault[n] /\ cw[n] # 15
          /\ ~fault[m] /\ cw[m] = 15
          /\ write_queue[Len(write_queue)].alarms = <<n>>

\* C28: a broadcast of the network state the fleet is already in writes to
\* no drive and leaves the network state as it is; stop_all on a fleet that
\* is already stopped issues no bus write.
C28_NoRedundantBroadcast ==
    [][/\ \A i \in 1..Len(trace') : trace'[i].ev = "cw" => trace'[i].val # state
       /\ ((\E i \in 1..Len(trace') : trace'[i].ev = "stop_all") /\ state = 7)
             => /\ state' = 7
                /\ cw' = cw
                /\ \A i \in 1..Len(trace') : trace'[i].ev \notin {"cw", "bit7"}]_vars

\* a tick has called stop_all on a stopped fleet with a healthy drive
C28_Witness ==
    /\ Ticked
    /\ ~tickIn.wasRunning
    /\ Issued("stop_all")
    /\ \A i \in 1..Len(trace) : trace[i].ev # "cw"
    /\ \E n \in Nodes : ~fault[n] /\ cw[n] = 7

C30_LoopLeavesServiceKeys ==
    [][lastOp' # "env" =>
          /\ \A k \in Services \cup CounterKeys : settings'[k] = settings[k]
          /\ \A k \in DOMAIN settings :
                settings'[k] # settings[k]
                    => k \in {"Operator_Pump_start", "Antisgocc_OK",
                              "Pressione_Ingresso_OK", "Pressione_Ingresso"}]_vars

\* a tick found a service lock set, stopped the fleet for it and wrote the
\* inlet keys, and the lock is still set afterwards
C30_Witness ==
    /\ Ticked
    /\ AnyLocked
    /\ tickIn.wasRunning
    /\ Issued("stop_all")
    /\ settings["Pressione_Ingresso"] = Format(tickIn.inlet)
    /\ \E k \in Services : settings[k] = "1"

\* C37: for 0 <= seconds < 60, 0 <= minutes < 60 and hours >= 0, time_increase
\* returns a triple with 0 <= seconds < 60 and 0 <= minutes < 60 that is
\* exactly one second later: hours*3600 + minutes*60 + seconds grows by one,
\* and hours is not wrapped at 24.
C37_TimeIncrease ==
    [][(/\ lastOp' = "time_increase"
        /\ hms.seconds \in 0..59 /\ hms.minutes \in 0..59 /\ hms.hours >= 0)
          => /\ hms'.seconds \in 0..59
             /\ hms'.minutes \in 0..59
             /\ hms'.hours * 3600 + hms'.minutes * 60 + hms'.seconds
                   = hms.hours * 3600 + hms.minutes * 60 + hms.seconds + 1]_vars

\* the call carried the last second before MaxHours into the hours
C37_Witness ==
    /\ lastOp = "time_increase"
    /\ hms = [seconds |-> 0, minutes |-> 0, hours |-> MaxHours]

\* C36: with the socket process as the only producer of commands, at most
\* one command is outstanding: the command queue and the response queue hold
\* at most one item each and never one each at the same time, and a response
\* the socket process takes is the loop's response to the command it put last.
C36_OneOutstanding ==
    [][/\ Len(read_queue') + Len(write_queue') <= 1
       /\ (write_queue # <<>> /\ write_queue' = Tail(write_queue))
             => /\ pending # "none"
                /\ Answers(pending, Head(write_queue))]_vars

\* the response to a STOP has been taken and the process is back at its
\* receive with both queues empty
C36_Witness ==
    /\ lastOp = "env"
    /\ pending = "none"
    /\ lastCmd = "STOP"
    /\ read_queue = <<>> /\ write_queue = <<>>
    /\ alive

\* C32: when a tick starts the fleet while an episode is still open
\* (last_started set and younger than the minimum period at this tick),
\* last_started keeps the instant it holds, i.e. its age only advances by the
\* time elapsed; when last_started is unset, or was counted at this tick, the
\* start sets it to the current time (age 0).
C32_EpisodeOpenRestartSafe ==
    [][(/\ lastOp' = "tick" /\ alive'
        /\ \E i \in 1..Len(trace') : trace'[i].ev = "run_all")
          => \E dt \in Dts :
                LET age == Aged(last_started, dt, anti_drip_min_period)
                IN  IF age # None /\ age < anti_drip_min_period
                    THEN last_started' = age
                    ELSE last_started' = 0]_vars

\* a tick has started the fleet again inside an episode opened earlier
C32_Witness ==
    /\ Ticked
    /\ Issued("run_all")
    /\ running
    /\ last_started # None /\ last_started > 0

\* C33: anti_drip_start_count grows by at most one per periodic tick and,
\* with a limit of at least one, is never above anti_drip_start_count_limit
\* after a tick, so the equality test of the trigger is not stepped over.
C33_CountWithinLimit ==
    [][lastOp' = "tick"
          => /\ anti_drip_start_count' <= anti_drip_start_count + 1
             /\ anti_drip_start_count_limit >= 1
                   => anti_drip_start_count' <= anti_drip_start_count_limit]_vars

\* the count has climbed over several ticks to a limit above one and the
\* trigger has fired at it
C33_Witness ==
    /\ Ticked
    /\ anti_drip_start_count_limit >= 2
    /\ anti_drip_start_count = anti_drip_start_count_limit
    /\ anti_drip
    /\ settings["Antisgocc_OK"] = "0"

\* C34: after every periodic tick each drive whose fault bit is clear holds
\* the control word of the current network state; in particular a drive whose
\* fault RUN has reset while the fleet runs is at OPERATION_ENABLED.
C34_HealthyDrivesFollowState ==
    Ticked => \A n \in Nodes : ~fault[n] => cw[n] = state

\* C31: after every step of the ticker it is still running, and each counter
\* whose stored hours have reached its limit has its lock flag set.
C31_TickerLocksAtLimit ==
    lastOp = "ticker"
        => /\ ticker.alive
           /\ \A c \in Counters :
                 Num(settings[CounterKey(c, "hour")]) >= Num(settings[CounterKey(c, "SetCounter")])
                     => settings[FlagKey(c)] = "1"

\* The stored hours, minutes and seconds of counter c.
Stored(store, c) ==
    [seconds |-> Num(store[CounterKey(c, "sec")]),
     minutes |-> Num(store[CounterKey(c, "min")]),
     hours |-> Num(store[CounterKey(c, "hour")])]

C38_InfoReplyIsDiff ==
    [][lastOp' = "info_reply"
          => LET old == sock.last_row
                 new == Head(write_queue)
                 diff == {k \in DOMAIN new : k \notin DOMAIN old \/ old[k] # new[k]}
             IN  /\ sock'.alive
                 /\ IF DictEq(old, new)
                    THEN sock'.answer.kind = "NU" /\ sock'.rows = sock.rows
                    ELSE /\ sock'.answer.kind = "json"
                         /\ DOMAIN sock'.answer.body = diff
                         /\ \A k \in diff : sock'.answer.body[k] = new[k]]_vars

\* C39: the connection thread never has more than max_retries failures of
\* one command in a row, and when it leaves a for loop because the command
\* kept failing it has failed max_retries times and raises ConnectionError.
C39_RetriesThenRaise ==
    [][/\ sim'.tries <= sim.max_retries
       /\ (sim.pc \in {"connect", "disconnect"} /\ sim'.pc # sim.pc
              /\ sim'.tries > sim.tries)
             => (sim'.raised /\ sim'.tries = sim.max_retries)]_vars

====
